---- MODULE Spec2Model ----
(***************************************************************************)
(* Model of commit_summary.py: weekly commit summary pipeline.             *)
(*   Discovery -> Retrieval (per repo) -> Formatter -> Summarizer -> print *)
(* Python strings are modelled as sequences of one-character strings, so   *)
(* formatting, splitting and stripping are computed as the code does.      *)
(***************************************************************************)
EXTENDS Integers, Sequences, FiniteSets, TLC

VARIABLES
    GITHUB_TOKEN,        \* os.getenv('GITHUB_TOKEN')
    ANTHROPIC_API_KEY,   \* os.getenv('ANTHROPIC_API_KEY')
    total_count,         \* the total_count the search endpoint reports
    pc,                  \* position of the run
    requests,            \* network requests issued so far, in order
    responses,           \* search responses received so far, in order
    user_status,         \* status of the identity lookup (0: not issued)
    page,                \* get_user_commits_in_repos: page
    found,               \* get_user_commits_in_repos: repos_with_commits (set)
    user_repos,          \* main: user_repos_with_commits (list)
    retrieved,           \* per-repository retrieval outcomes, in order
    repos_with_commits,  \* main: repos_with_commits (list of RepoCommits)
    commit_data,         \* formatted block
    basic_summary,       \* generate_summary_with_anthropic: basic_summary
    summary,             \* summary returned by the summarizer
    gen_outcome,         \* how the generative path ended
    calls,               \* pipeline stages invoked so far, in order
    out,                 \* what was printed, in order
    block_in             \* line descriptors of a hand-made input block

vars == <<GITHUB_TOKEN, ANTHROPIC_API_KEY, total_count, pc, requests, responses,
          user_status, page, found, user_repos, retrieved, repos_with_commits,
          commit_data, basic_summary, summary, gen_outcome, calls, out, block_in>>

-----------------------------------------------------------------------------
(* Python str operations on character sequences *)

None == <<"<None>">>

Whitespace == {" ", "\n"}

Truthy(s) == s # None /\ s # <<>>

StartsWith(s, p) == Len(s) >= Len(p) /\ SubSeq(s, 1, Len(p)) = p

RECURSIVE LStrip(_)
LStrip(s) == IF s # <<>> /\ Head(s) \in Whitespace THEN LStrip(Tail(s)) ELSE s

RECURSIVE RStrip(_)
RStrip(s) ==
    IF s # <<>> /\ s[Len(s)] \in Whitespace THEN RStrip(SubSeq(s, 1, Len(s) - 1)) ELSE s

Strip(s) == RStrip(LStrip(s))

\* str.find: the first index >= i at which sub occurs in s, 0 if none
RECURSIVE Find(_, _, _)
Find(s, sub, i) ==
    IF i + Len(sub) - 1 > Len(s) THEN 0
    ELSE IF SubSeq(s, i, i + Len(sub) - 1) = sub THEN i
    ELSE Find(s, sub, i + 1)

Contains(s, sub) == Find(s, sub, 1) # 0

\* str.split(sep)
RECURSIVE Split(_, _)
Split(s, sep) ==
    LET i == Find(s, sep, 1)
    IN IF i = 0 THEN <<s>>
       ELSE <<SubSeq(s, 1, i - 1)>> \o Split(SubSeq(s, i + Len(sep), Len(s)), sep)

\* str.split(sep, 1)
SplitOnce(s, sep) ==
    LET i == Find(s, sep, 1)
    IN IF i = 0 THEN <<s>>
       ELSE <<SubSeq(s, 1, i - 1), SubSeq(s, i + Len(sep), Len(s))>>

\* str.replace(old, new)
RECURSIVE Replace(_, _, _)
Replace(s, old, new) ==
    LET i == Find(s, old, 1)
    IN IF i = 0 THEN s
       ELSE SubSeq(s, 1, i - 1) \o new \o Replace(SubSeq(s, i + Len(old), Len(s)), old, new)

\* sep.join(parts)
RECURSIVE Join(_, _)
Join(parts, sep) ==
    IF parts = <<>> THEN <<>>
    ELSE IF Len(parts) = 1 THEN parts[1]
    ELSE parts[1] \o sep \o Join(Tail(parts), sep)

\* s[n:]
DropFirst(s, n) == SubSeq(s, n + 1, Len(s))

\* s[:n]
TakeFirst(s, n) == SubSeq(s, 1, IF Len(s) < n THEN Len(s) ELSE n)

-----------------------------------------------------------------------------
(* Python dict, insertion-ordered: a sequence of <<key, value>> pairs *)

DictHas(d, k) == \E i \in 1..Len(d) : d[i][1] = k

DictGet(d, k) == d[CHOOSE i \in 1..Len(d) : d[i][1] = k][2]

\* faulty variant: an existing key is moved to the end
DictSetMovesToEnd(d, k, v) ==
    SelectSeq(d, LAMBDA e : e[1] # k) \o <<(<<k, v>>)>>

\* d[k] = v: an existing key keeps its position
DictSet(d, k, v) ==
    IF DictHas(d, k)
    THEN [i \in 1..Len(d) |-> IF d[i][1] = k THEN <<k, v>> ELSE d[i]]
    ELSE Append(d, <<k, v>>)

-----------------------------------------------------------------------------
(* Text constants of the program *)

NL == <<"\n">>

HeaderMarker == <<"R","e","p","o","s","i","t","o","r","y",":">>

EntryIndent == <<" "," ","-"," ">>

NoCommitsText == <<"N","o"," ","c","o","m","m","i","t","s"," ","f","o","u","n","d"," ","i","n"," ","t","h","e"," ","p","a","s","t"," ","w","e","e","k",".">>

SHA_DISPLAY_LEN == 7

ENTRY_PREFIX_LEN == 4

-----------------------------------------------------------------------------
(* format_commit_data *)

FormatEntry(commit) ==
    EntryIndent \o <<"[">> \o TakeFirst(commit.sha, SHA_DISPLAY_LEN) \o <<"]", " ">>
        \o commit.date \o <<":", " ">> \o commit.message

RECURSIVE FormatEntries(_)
FormatEntries(commits) ==
    IF commits = <<>> THEN <<>>
    ELSE <<FormatEntry(Head(commits))>> \o FormatEntries(Tail(commits))

RECURSIVE FormatLines(_)
FormatLines(rs) ==
    IF rs = <<>> THEN <<>>
    ELSE LET repo_data == Head(rs)
         IN (IF repo_data.commits = <<>> THEN <<>>
             ELSE <<HeaderMarker \o <<" ">> \o repo_data.repo_name>>
                      \o FormatEntries(repo_data.commits) \o << <<>> >>)
            \o FormatLines(Tail(rs))

format_commit_data(rs) == Join(FormatLines(rs), NL)

-----------------------------------------------------------------------------
(* generate_basic_summary *)

\* first loop: lines -> [current_repo, repo_commits]
RECURSIVE ParseLines(_, _, _)
ParseLines(lines, current_repo, repo_commits) ==
    IF lines = <<>> THEN repo_commits
    ELSE LET line == Head(lines)
         IN IF StartsWith(line, HeaderMarker)
            THEN LET repo == Strip(Replace(line, HeaderMarker, <<>>))
                 IN ParseLines(Tail(lines), repo, DictSet(repo_commits, repo, <<>>))
            ELSE IF Strip(line) # <<>> /\ StartsWith(line, EntryIndent) /\ Truthy(current_repo)
            THEN LET commit_info == DropFirst(Strip(line), ENTRY_PREFIX_LEN)
                 IN ParseLines(Tail(lines), current_repo,
                               DictSet(repo_commits, current_repo,
                                       Append(DictGet(repo_commits, current_repo), commit_info)))
            ELSE ParseLines(Tail(lines), current_repo, repo_commits)

\* the message of one parsed entry: parts = commit.split(':', 1)
EntryParts(commit) == SplitOnce(commit, <<":">>)

\* grouping loop: commit_messages, message -> list of sha_date
RECURSIVE GroupMessages(_, _)
GroupMessages(commits, commit_messages) ==
    IF commits = <<>> THEN commit_messages
    ELSE LET parts == EntryParts(Head(commits))
         IN IF Len(parts) > 1
            THEN LET message  == Strip(parts[2])
                     sha_date == Strip(parts[1])
                 IN GroupMessages(Tail(commits),
                        IF DictHas(commit_messages, message)
                        THEN DictSet(commit_messages, message,
                                     Append(DictGet(commit_messages, message), sha_date))
                        ELSE DictSet(commit_messages, message, <<sha_date>>))
            ELSE GroupMessages(Tail(commits), commit_messages)

RECURSIVE Bullets(_)
Bullets(commit_messages) ==
    IF commit_messages = <<>> THEN <<>>
    ELSE << <<"-", " ">> \o Head(commit_messages)[1] >> \o Bullets(Tail(commit_messages))

RECURSIVE SummaryParts(_)
SummaryParts(repo_commits) ==
    IF repo_commits = <<>> THEN <<>>
    ELSE LET repo    == Head(repo_commits)[1]
             commits == Head(repo_commits)[2]
         IN << <<"#", " ">> \o repo >> \o Bullets(GroupMessages(commits, <<>>)) \o << <<>> >>
              \o SummaryParts(Tail(repo_commits))

generate_basic_summary(data) ==
    IF Strip(data) = <<>> THEN NoCommitsText
    ELSE Join(SummaryParts(ParseLines(Split(Strip(data), NL), None, <<>>)), NL)

-----------------------------------------------------------------------------
(* Bounds and input sets *)

MaxTotal == 250

MaxItems == 2

MaxCommits == 3

MaxLines == 4

HTTP_OK == 200

PER_PAGE == 100

FailureStatuses == {403, 404}

StatusCodes == {HTTP_OK} \cup FailureStatuses

RepoRefs == { [owner |-> <<"o","r","g">>, name |-> <<"a">>], [owner |-> <<"o","r","g">>, name |-> <<"b">>] }

RepoUrl(ref) == <<"h","t","t","p","s",":","/","/","a","p","i",".","g","i","t","h","u","b",".","c","o","m","/","r","e","p","o","s","/">> \o ref.owner \o <<"/">> \o ref.name

RepoPair(ref) == <<ref.owner, ref.name>>

FullName(pair) == pair[1] \o <<"/">> \o pair[2]

Sha1 == <<"a","b","c","1","2","3","4","d","e","f","0">>
Sha2 == <<"0","1","2","3","4","5","6","7","8","9","a">>
Date1 == <<"2","0","2","4","-","0","1","-","0","1","T","0","0",":","0","0",":","0","0","Z">>
Date2 == <<"2","0","2","4","-","0","1","-","0","1","T","0","0",":","0","1",":","0","0","Z">>
Msg1 == <<"m","s","g","1">>
Msg2 == <<"m","s","g","2">>
Msg3 == <<"m","s","g","3">>

Commit(s, d, m) == [sha |-> s, date |-> d, message |-> m]

Commits == { Commit(Sha1, Date1, Msg1), Commit(Sha2, Date1, Msg1), Commit(Sha2, Date2, Msg1),
             Commit(Sha1, Date1, Msg2), Commit(Sha1, Date1, Msg3) }

SeqsUpTo(S, n) == UNION { [1..k -> S] : k \in 0..n }

\* every ordering of a finite set
Orderings(S) == { s \in [1..Cardinality(S) -> S] : \A x \in S : \E i \in DOMAIN s : s[i] = x }

CommitLists == SeqsUpTo(Commits, MaxCommits) \ {<<>>}

\* the orders in which one or more repositories may be supplied
RepoOrders == UNION { Orderings(R) : R \in (SUBSET RepoRefs) \ {{}} }

\* the sequence of RepoCommits for repositories in this order with these commit lists
RepoCommitsOf(order, cs) ==
    [i \in 1..Len(order) |-> [repo_name |-> FullName(RepoPair(order[i])), commits |-> cs[i]]]

\* what the per-repository commit listing may answer in a run of main
RetrievalBodies == { <<>>, <<Commit(Sha1, Date1, Msg1)>>,
                     <<Commit(Sha1, Date1, Msg1), Commit(Sha2, Date2, Msg1)>> }

MainTotals == {0, PER_PAGE, PER_PAGE + 1, 2 * PER_PAGE + 1}

TokenValues == { None, <<>>, <<"g","h","p","_","t","o","k","e","n">> }

KeyValues == { None, <<>>, <<"y","o","u","r","_","a","p","i","_","k","e","y","_","h","e","r","e">>, <<"<","A","N","T","H","R","O","P","I","C","_","A","P","I","_","K","E","Y",">">>, <<"s","k","-","a","n","t","-","k","e","y">> }

ExternalText == <<"#"," ","o","r","g","/","a","\n","-"," ","S","h","i","p","p","e","d"," ","t","h","e"," ","w","e","e","k","l","y"," ","w","o","r","k">>

\* the lines a hand-made block is built from
HeaderLine(ref) == [kind |-> "header", repo |-> FullName(RepoPair(ref)), text |-> <<>>]

EntryLine(d, sep, m) ==
    [kind |-> "entry", repo |-> <<>>,
     text |-> EntryIndent \o <<"[","a","b","c","1","2","3","4","]"," ">> \o d \o sep \o m]

NoColonMessage == <<"n","o","-","c","o","l","o","n","-","m","e","s","s","a","g","e">>

NoSeparatorEntry == EntryLine(Date1, <<" ">>, NoColonMessage)

LineKinds ==
    { HeaderLine(r) : r \in RepoRefs }
    \cup { EntryLine(Date1, <<":"," ">>, Msg1), EntryLine(Date2, <<":"," ">>, Msg2), NoSeparatorEntry,
           [kind |-> "entry", repo |-> <<>>, text |-> EntryIndent \o <<"[","a","b","c","1","2","3","4","]"," ","u","n","d","a","t","e","d">>],
           [kind |-> "blank", repo |-> <<>>, text |-> <<>>],
           [kind |-> "other", repo |-> <<>>, text |-> <<"m","o","r","e">>] }

LineText(l) == IF l.kind = "header" THEN HeaderMarker \o <<" ">> \o l.repo ELSE l.text

Blocks == SeqsUpTo(LineKinds, MaxLines)

RenderBlock(b) == Join([i \in 1..Len(b) |-> LineText(b[i])], NL)

-----------------------------------------------------------------------------
(* get_user_info, get_user_commits_in_repos, get_user_commits *)

Login == <<"o","c","t","o","c","a","t">>

\* faulty variant: the status is not looked at
get_user_info_unchecked(status) == Login

get_user_info(status) == IF status # HTTP_OK THEN None ELSE Login

\* owner and name from the item's repository url
RepoOfUrl(repo_url) ==
    LET segs == Split(repo_url, <<"/">>)
    IN <<segs[Len(segs) - 1], segs[Len(segs)]>>

RECURSIVE AddItems(_, _)
AddItems(items, acc) ==
    IF items = <<>> THEN acc
    ELSE AddItems(Tail(items), acc \cup {RepoOfUrl(Head(items))})

\* faulty variant: the loop goes on when page * 100 = total_count
SearchStepOffByOne(resp, p, acc) ==
    IF resp.status # HTTP_OK THEN [acc |-> acc, page |-> p, stop |-> TRUE]
    ELSE IF resp.items = <<>> THEN [acc |-> acc, page |-> p, stop |-> TRUE]
    ELSE IF p * PER_PAGE > resp.total_count
         THEN [acc |-> AddItems(resp.items, acc), page |-> p, stop |-> TRUE]
         ELSE [acc |-> AddItems(resp.items, acc), page |-> p + 1, stop |-> FALSE]

\* faulty variant: a failed page discards what was accumulated
SearchStepDropsOnFailure(resp, p, acc) ==
    IF resp.status # HTTP_OK THEN [acc |-> {}, page |-> p, stop |-> TRUE]
    ELSE IF resp.items = <<>> THEN [acc |-> acc, page |-> p, stop |-> TRUE]
    ELSE IF p * PER_PAGE >= resp.total_count
         THEN [acc |-> AddItems(resp.items, acc), page |-> p, stop |-> TRUE]
         ELSE [acc |-> AddItems(resp.items, acc), page |-> p + 1, stop |-> FALSE]

\* one pass of the while loop on the response to the request for page p:
\* the accumulated set, the next page and whether the loop ends
SearchStep(resp, p, acc) ==
    IF resp.status # HTTP_OK THEN [acc |-> acc, page |-> p, stop |-> TRUE]
    ELSE IF resp.items = <<>> THEN [acc |-> acc, page |-> p, stop |-> TRUE]
    ELSE IF p * PER_PAGE >= resp.total_count
         THEN [acc |-> AddItems(resp.items, acc), page |-> p, stop |-> TRUE]
         ELSE [acc |-> AddItems(resp.items, acc), page |-> p + 1, stop |-> FALSE]

get_user_commits(status, body) == IF status # HTTP_OK THEN <<>> ELSE body

-----------------------------------------------------------------------------
(* main and generate_summary_with_anthropic: the checks they make *)

\* faulty variant: the API key is not validated
CredentialErrorTokenOnly(token, key) ==
    IF ~Truthy(token) THEN "err_token" ELSE "none"

\* main's validation: the error printed, or "none"
CredentialError(token, key) ==
    IF ~Truthy(token) THEN "err_token"
    ELSE IF ~Truthy(key) THEN "err_key"
    ELSE "none"

\* faulty variant: the emptiness check is missing
NothingToSummarizeNever(rwc) == FALSE

\* main: if not repos_with_commits
NothingToSummarize(rwc) == rwc = <<>>

\* generate_summary_with_anthropic: the key is missing or a placeholder
KeyNotConfigured(key) ==
    \/ ~Truthy(key)
    \/ StartsWith(key, <<"y","o","u","r","_">>)
    \/ Contains(key, <<"A","N","T","H","R","O","P","I","C","_","A","P","I","_","K","E","Y">>)

Req(kind, p, repo) == [kind |-> kind, page |-> p, repo |-> repo]

-----------------------------------------------------------------------------
(* Initial states *)

Idle ==
    /\ requests = <<>>
    /\ responses = <<>>
    /\ user_status = 0
    /\ page = 1
    /\ found = {}
    /\ user_repos = <<>>
    /\ retrieved = <<>>
    /\ basic_summary = None
    /\ summary = None
    /\ gen_outcome = "none"
    /\ calls = <<>>

\* a run of main
Init ==
    /\ GITHUB_TOKEN \in TokenValues
    /\ ANTHROPIC_API_KEY \in KeyValues
    /\ total_count \in MainTotals
    /\ pc = "main"
    /\ repos_with_commits = <<>>
    /\ out = <<>>
    /\ block_in = <<>>
    /\ commit_data = <<>>
    /\ Idle

\* a call of get_user_commits_in_repos
InitDiscovery ==
    /\ GITHUB_TOKEN = <<"g","h","p","_","t","o","k","e","n">>
    /\ ANTHROPIC_API_KEY = <<"s","k","-","a","n","t","-","k","e","y">>
    /\ total_count \in 0..MaxTotal
    /\ pc = "user_info"
    /\ repos_with_commits = <<>>
    /\ out = <<"fetching">>
    /\ block_in = <<>>
    /\ commit_data = <<>>
    /\ Idle

\* format_commit_data on a sequence of RepoCommits, then generate_basic_summary
InitFormat ==
    /\ GITHUB_TOKEN = None
    /\ ANTHROPIC_API_KEY = None
    /\ total_count = 0
    /\ pc = "format_input"
    /\ \E order \in RepoOrders : \E cs \in [1..Len(order) -> CommitLists] :
         repos_with_commits = RepoCommitsOf(order, cs)
    /\ out = <<>>
    /\ block_in = <<>>
    /\ commit_data = <<>>
    /\ Idle

\* generate_basic_summary on a block of lines
InitBasic ==
    /\ GITHUB_TOKEN = None
    /\ ANTHROPIC_API_KEY = None
    /\ total_count = 0
    /\ pc = "formatted"
    /\ repos_with_commits = <<>>
    /\ out = <<>>
    /\ block_in \in Blocks
    /\ Idle
    /\ commit_data = RenderBlock(block_in)

-----------------------------------------------------------------------------
(* main *)

Validate ==
    /\ pc = "main"
    /\ LET e == CredentialError(GITHUB_TOKEN, ANTHROPIC_API_KEY)
       IN IF e # "none"
          THEN out' = Append(out, e) /\ pc' = "done"
          ELSE out' = Append(out, "fetching") /\ pc' = "user_info"
    /\ UNCHANGED <<GITHUB_TOKEN, ANTHROPIC_API_KEY, total_count, requests, responses,
                   user_status, page, found, user_repos, retrieved, repos_with_commits,
                   commit_data, basic_summary, summary, gen_outcome, calls, block_in>>

\* get_user_commits_in_repos: the identity lookup
GetUserInfo ==
    /\ pc = "user_info"
    /\ \E status \in StatusCodes :
         /\ requests' = Append(requests, Req("user", 0, <<>>))
         /\ user_status' = status
         /\ LET user_info == get_user_info(status)
            IN IF ~Truthy(user_info)
               THEN pc' = "retrieve"
               ELSE pc' = "search"
    /\ user_repos' = <<>>
    /\ found' = {}
    /\ page' = 1
    /\ UNCHANGED <<GITHUB_TOKEN, ANTHROPIC_API_KEY, total_count, responses, retrieved,
                   repos_with_commits, commit_data, basic_summary, summary, gen_outcome,
                   calls, out, block_in>>

\* get_user_commits_in_repos: one request of the search loop
SearchPage ==
    /\ pc = "search"
    /\ \E status \in StatusCodes :
       \E urls \in SeqsUpTo({RepoUrl(r) : r \in RepoRefs}, MaxItems) :
         /\ status # HTTP_OK => urls = <<>>
         /\ LET resp == [status |-> status, items |-> urls, total_count |-> total_count]
                r    == SearchStep(resp, page, found)
            IN /\ requests' = Append(requests, Req("search", page, <<>>))
               /\ responses' = Append(responses, resp)
               /\ found' = r.acc
               /\ page' = r.page
               /\ pc' = IF r.stop THEN "search_return" ELSE "search"
    /\ UNCHANGED <<GITHUB_TOKEN, ANTHROPIC_API_KEY, total_count, user_status, user_repos,
                   retrieved, repos_with_commits, commit_data, basic_summary, summary,
                   gen_outcome, calls, out, block_in>>

\* get_user_commits_in_repos: return list(repos_with_commits)
ReturnRepos ==
    /\ pc = "search_return"
    /\ user_repos' \in Orderings(found)
    /\ pc' = "retrieve"
    /\ UNCHANGED <<GITHUB_TOKEN, ANTHROPIC_API_KEY, total_count, requests, responses,
                   user_status, page, found, retrieved, repos_with_commits, commit_data,
                   basic_summary, summary, gen_outcome, calls, out, block_in>>

\* main: one pass of the retrieval loop
Retrieve ==
    /\ pc = "retrieve"
    /\ Len(retrieved) < Len(user_repos)
    /\ LET repo == user_repos[Len(retrieved) + 1]
       IN \E status \in StatusCodes : \E body \in RetrievalBodies :
            /\ status # HTTP_OK => body = <<>>
            /\ LET commits == get_user_commits(status, body)
               IN /\ requests' = Append(requests, Req("commits", 0, FullName(repo)))
                  /\ retrieved' = Append(retrieved,
                         [repo |-> FullName(repo), status |-> status, n |-> Len(body)])
                  /\ repos_with_commits' =
                         IF commits # <<>>
                         THEN Append(repos_with_commits,
                                     [repo_name |-> FullName(repo), commits |-> commits])
                         ELSE repos_with_commits
    /\ UNCHANGED <<GITHUB_TOKEN, ANTHROPIC_API_KEY, total_count, pc, responses, user_status,
                   page, found, user_repos, commit_data, basic_summary, summary, gen_outcome,
                   calls, out, block_in>>

\* main: after the retrieval loop
AfterRetrieval ==
    /\ pc = "retrieve"
    /\ Len(retrieved) = Len(user_repos)
    /\ IF NothingToSummarize(repos_with_commits)
       THEN /\ out' = Append(out, "no_commits")
            /\ pc' = "done"
            /\ UNCHANGED <<commit_data, calls>>
       ELSE /\ commit_data' = format_commit_data(repos_with_commits)
            /\ calls' = Append(calls, "format")
            /\ out' = Append(out, "generating")
            /\ pc' = "summarize"
    /\ UNCHANGED <<GITHUB_TOKEN, ANTHROPIC_API_KEY, total_count, requests, responses,
                   user_status, page, found, user_repos, retrieved, repos_with_commits,
                   basic_summary, summary, gen_outcome, block_in>>

\* generate_summary_with_anthropic: the fallback and the key check
Summarize ==
    /\ pc = "summarize"
    /\ calls' = Append(calls, "summarize")
    /\ basic_summary' = generate_basic_summary(commit_data)
    /\ IF KeyNotConfigured(ANTHROPIC_API_KEY)
       THEN summary' = basic_summary' /\ gen_outcome' = "not_configured" /\ pc' = "print"
       ELSE summary' = summary /\ gen_outcome' = gen_outcome /\ pc' = "client"
    /\ UNCHANGED <<GITHUB_TOKEN, ANTHROPIC_API_KEY, total_count, requests, responses,
                   user_status, page, found, user_repos, retrieved, repos_with_commits,
                   commit_data, out, block_in>>

\* generate_summary_with_anthropic: Anthropic(api_key=...), outside the try block
ClientSetup ==
    /\ pc = "client"
    /\ \E ok \in BOOLEAN :
         IF ok THEN pc' = "create" /\ gen_outcome' = gen_outcome
               ELSE pc' = "raised" /\ gen_outcome' = "setup_error"
    /\ UNCHANGED <<GITHUB_TOKEN, ANTHROPIC_API_KEY, total_count, requests, responses,
                   user_status, page, found, user_repos, retrieved, repos_with_commits,
                   commit_data, basic_summary, summary, calls, out, block_in>>

\* generate_summary_with_anthropic: the try block
CreateMessage ==
    /\ pc = "create"
    /\ requests' = Append(requests, Req("generate", 0, <<>>))
    /\ \E o \in {"ok", "request_error", "malformed_response"} :
         /\ gen_outcome' = o
         /\ summary' = IF o = "ok" THEN ExternalText ELSE basic_summary
    /\ pc' = "print"
    /\ UNCHANGED <<GITHUB_TOKEN, ANTHROPIC_API_KEY, total_count, responses, user_status,
                   page, found, user_repos, retrieved, repos_with_commits, commit_data,
                   basic_summary, calls, out, block_in>>

\* main: the summary block
PrintSummary ==
    /\ pc = "print"
    /\ out' = Append(out, "summary_block")
    /\ pc' = "done"
    /\ UNCHANGED <<GITHUB_TOKEN, ANTHROPIC_API_KEY, total_count, requests, responses,
                   user_status, page, found, user_repos, retrieved, repos_with_commits,
                   commit_data, basic_summary, summary, gen_outcome, calls, block_in>>

-----------------------------------------------------------------------------
(* the pure functions applied to drawn inputs *)

ApplyFormat ==
    /\ pc = "format_input"
    /\ commit_data' = format_commit_data(repos_with_commits)
    /\ pc' = "formatted"
    /\ UNCHANGED <<GITHUB_TOKEN, ANTHROPIC_API_KEY, total_count, requests, responses,
                   user_status, page, found, user_repos, retrieved, repos_with_commits,
                   basic_summary, summary, gen_outcome, calls, out, block_in>>

ApplyBasicSummary ==
    /\ pc = "formatted"
    /\ summary' = generate_basic_summary(commit_data)
    /\ pc' = "summarized"
    /\ UNCHANGED <<GITHUB_TOKEN, ANTHROPIC_API_KEY, total_count, requests, responses,
                   user_status, page, found, user_repos, retrieved, repos_with_commits,
                   commit_data, basic_summary, gen_outcome, calls, out, block_in>>

-----------------------------------------------------------------------------
(* Specifications *)

Next ==
    \/ Validate
    \/ GetUserInfo
    \/ SearchPage
    \/ ReturnRepos
    \/ Retrieve
    \/ AfterRetrieval
    \/ Summarize
    \/ ClientSetup
    \/ CreateMessage
    \/ PrintSummary

Spec == Init /\ [][Next]_vars

NextDiscovery ==
    \/ GetUserInfo
    \/ SearchPage
    \/ ReturnRepos

SpecDiscovery == InitDiscovery /\ [][NextDiscovery]_vars

NextFormat ==
    \/ ApplyFormat
    \/ ApplyBasicSummary

SpecFormat == InitFormat /\ [][NextFormat]_vars

NextBasic == ApplyBasicSummary

SpecBasic == InitBasic /\ [][NextBasic]_vars

-----------------------------------------------------------------------------
(* Vocabulary of the properties *)

Last(s) == s[Len(s)]

EndsWith(s, p) == Len(s) >= Len(p) /\ SubSeq(s, Len(s) - Len(p) + 1, Len(s)) = p

Elems(s) == { s[i] : i \in 1..Len(s) }

RequestsOf(kind) == SelectSeq(requests, LAMBDA r : r.kind = kind)

CeilDiv(n, d) == (n + d - 1) \div d

\* the lines of a text
LinesOf(text) == Split(text, NL)

HeadingPrefix == <<"#"," ">>

BulletPrefix == <<"-"," ">>

IsHeading(line) == StartsWith(line, HeadingPrefix)

IsBullet(line) == StartsWith(line, BulletPrefix)

\* the repository names of the heading lines of a summary, in order
HeadingsOf(text) ==
    LET hs == SelectSeq(LinesOf(text), IsHeading)
    IN [i \in 1..Len(hs) |-> DropFirst(hs[i], Len(HeadingPrefix))]

\* a sequence without its repeated elements, first occurrences kept
RECURSIVE FirstSeen(_)
FirstSeen(s) ==
    IF s = <<>> THEN <<>>
    ELSE LET front == FirstSeen(SubSeq(s, 1, Len(s) - 1))
         IN IF Last(s) \in Elems(front) THEN front ELSE Append(front, Last(s))

\* the lines of a summary under the heading of repo, up to the next heading
RECURSIVE UpToHeading(_)
UpToHeading(lines) ==
    IF lines = <<>> \/ IsHeading(Head(lines)) THEN <<>>
    ELSE <<Head(lines)>> \o UpToHeading(Tail(lines))

RECURSIVE SectionOf(_, _)
SectionOf(lines, repo) ==
    IF lines = <<>> THEN <<>>
    ELSE IF Head(lines) = HeadingPrefix \o repo THEN UpToHeading(Tail(lines))
    ELSE SectionOf(Tail(lines), repo)

\* the bullets for message m in a section: the bullet lines that end with m
BulletsFor(section, m) ==
    SelectSeq(section, LAMBDA line : IsBullet(line) /\ EndsWith(line, m))

MessagesOf(commits) == [i \in 1..Len(commits) |-> commits[i].message]

RECURSIVE ExpectedParts(_)
ExpectedParts(rs) ==
    IF rs = <<>> THEN <<>>
    ELSE LET ms == FirstSeen(MessagesOf(Head(rs).commits))
         IN << HeadingPrefix \o Head(rs).repo_name >>
              \o [i \in 1..Len(ms) |-> BulletPrefix \o ms[i]]
              \o ExpectedParts(Tail(rs))

NonBlank(lines) == SelectSeq(lines, LAMBDA line : line # <<>>)

-----------------------------------------------------------------------------
(* C1 *)

\* C1: the fallback summary of a formatted sequence of RepoCommits is, for each
\* repository in input order, the heading '# owner/name' followed by one bullet
\* '- m' per distinct commit message m in first-seen order, m being the commit
\* message itself.
C1_SummaryOfFormatted ==
    pc = "summarized" =>
        NonBlank(LinesOf(summary)) = ExpectedParts(repos_with_commits)

-----------------------------------------------------------------------------
(* C2 *)

\* C2: two commits of one repository with byte-identical messages, whatever
\* their shas and author dates, give exactly one bullet for that message under
\* the heading of that repository.
C2_Deduplication ==
    pc = "summarized" =>
        \A r \in 1..Len(repos_with_commits) :
            LET commits == repos_with_commits[r].commits
                section == SectionOf(LinesOf(summary), repos_with_commits[r].repo_name)
            IN \A i, j \in 1..Len(commits) :
                   (i # j /\ commits[i].message = commits[j].message)
                       => Len(BulletsFor(section, commits[i].message)) = 1

-----------------------------------------------------------------------------
(* C3 *)

\* the lines of block b from position i on that belong to the header at i - 1
RECURSIVE EntriesAfter(_, _)
EntriesAfter(b, i) ==
    IF i > Len(b) \/ b[i].kind = "header" THEN <<>>
    ELSE <<b[i]>> \o EntriesAfter(b, i + 1)

WellFormedMessages == {Msg1, Msg2}

\* C3: an entry line with no colon between its provenance and its message, such
\* as '  - [abc1234] 2024-01-01T00:00:00Z no-colon-message', gives no bullet,
\* and the other entries of the same repository are still summarized.
C3_NoSeparatorDropped ==
    pc = "summarized" =>
        \A h \in 1..Len(block_in) :
            (block_in[h].kind = "header"
                /\ NoSeparatorEntry \in Elems(EntriesAfter(block_in, h + 1))
                /\ \A k \in (h + 1)..Len(block_in) : block_in[k] # block_in[h])
            => LET section == SectionOf(LinesOf(summary), block_in[h].repo)
               IN /\ BulletsFor(section, NoColonMessage) = <<>>
                  /\ \A l \in Elems(EntriesAfter(block_in, h + 1)) : \A m \in WellFormedMessages :
                         EndsWith(l.text, <<":"," ">> \o m) => BulletsFor(section, m) # <<>>

-----------------------------------------------------------------------------
(* C4 *)

\* C4: generate_summary_with_anthropic never raises; it returns the fallback when
\* the key is missing or a placeholder (no external call) and whenever a step of
\* the external path fails (client set-up, request, reading the response), and
\* the external text only when the key is valid and the call succeeds.
C4_NeverRaises ==
    /\ pc # "raised"
    /\ gen_outcome = "setup_error" => pc \in {"print", "done"} /\ summary = basic_summary
    /\ (pc \in {"print", "done"} /\ "summarize" \in Elems(calls)) =>
          /\ KeyNotConfigured(ANTHROPIC_API_KEY)
                => summary = basic_summary /\ RequestsOf("generate") = <<>>
          /\ gen_outcome \in {"request_error", "malformed_response"}
                => summary = basic_summary
          /\ summary # basic_summary
                => ~KeyNotConfigured(ANTHROPIC_API_KEY) /\ gen_outcome = "ok"

-----------------------------------------------------------------------------
(* C5 *)

SearchLoopEnded == user_status = HTTP_OK /\ pc # "search"

AllPagesHadItems ==
    \A i \in 1..Len(responses) : responses[i].status = HTTP_OK /\ responses[i].items # <<>>

\* C5: pages 1, 2, ... are requested in order; when every page request succeeds
\* with items and total_count = N >= 1 the loop stops right after the first
\* page p with p * 100 >= N, so exactly ceil(N / 100) requests are made; it also
\* stops at the first page without items, so the number of requests is bounded.
C5_Pagination ==
    LET pages == RequestsOf("search")
        n     == CeilDiv(total_count, PER_PAGE)
    IN /\ Len(pages) = Len(responses)
       /\ \A i \in 1..Len(pages) : pages[i].page = i
       /\ (AllPagesHadItems /\ total_count >= 1) =>
             /\ Len(pages) <= n
             /\ SearchLoopEnded => Len(pages) = n
             /\ pc = "search" => page = Len(pages) + 1 /\ Len(pages) * PER_PAGE < total_count
       /\ \A i \in 1..Len(responses) : responses[i].items = <<>> => i = Len(responses)
       /\ Len(pages) <= (IF n < 1 THEN 1 ELSE n)

C5_ThreePagesFor250 ==
    /\ SearchLoopEnded
    /\ AllPagesHadItems
    /\ total_count = 250
    /\ Len(RequestsOf("search")) = 3

-----------------------------------------------------------------------------
(* C6 *)

\* the (owner, name) pairs of the items of search responses 1..k-1
PairsBefore(k) ==
    { RepoPair(ref) : ref \in { x \in RepoRefs :
          \E i \in 1..(k - 1) : RepoUrl(x) \in Elems(responses[i].items) } }

DiscoveryReturned == pc \notin {"main", "user_info", "search", "search_return"}

\* C6: when the request for page k returns a non-success status, no further page
\* is requested and discovery returns, without raising, exactly the pairs
\* accumulated from pages 1..k-1, each once; the run goes on to retrieve them.
C6_PartialFailure ==
    \A k \in 1..Len(responses) :
        responses[k].status # HTTP_OK =>
            /\ k = Len(responses)
            /\ Len(RequestsOf("search")) = k
            /\ pc # "search"
            /\ found = PairsBefore(k)
            /\ DiscoveryReturned =>
                  /\ Elems(user_repos) = PairsBefore(k)
                  /\ Len(user_repos) = Cardinality(PairsBefore(k))
                  /\ Len(retrieved) <= Len(user_repos)
                  /\ \A i \in 1..Len(retrieved) : retrieved[i].repo = FullName(user_repos[i])
                  /\ pc # "retrieve" => Len(retrieved) = Len(user_repos)

C6_FailureAfterSomePages ==
    /\ Len(responses) >= 2
    /\ Last(responses).status # HTTP_OK
    /\ Cardinality(found) = 2
    /\ pc = "done"
    /\ Len(RequestsOf("commits")) = 2

-----------------------------------------------------------------------------
(* C7 *)

CredentialMissing == ~Truthy(GITHUB_TOKEN) \/ ~Truthy(ANTHROPIC_API_KEY)

\* C7: with a required credential missing or empty, main prints an error and
\* aborts: no network request of any kind is issued, no stage runs and no
\* summary block is printed.
C7_AbortBeforeNetwork ==
    CredentialMissing =>
        /\ requests = <<>>
        /\ calls = <<>>
        /\ "summary_block" \notin Elems(out)
        /\ pc \in {"main", "done"}
        /\ pc = "done" => out \in {<<"err_token">>, <<"err_key">>}

C7_AbortedOnMissingKey ==
    /\ Truthy(GITHUB_TOKEN)
    /\ ~Truthy(ANTHROPIC_API_KEY)
    /\ pc = "done"
    /\ out = <<"err_key">>

-----------------------------------------------------------------------------
(* C8 *)

IdentityLookupFailed == user_status \notin {0, HTTP_OK}

\* C8: when the identity lookup returns a non-success status, discovery returns
\* an empty collection at once: no commit-search request is issued and nothing
\* is raised.
C8_IdentityFailure ==
    IdentityLookupFailed =>
        /\ RequestsOf("search") = <<>>
        /\ responses = <<>>
        /\ user_repos = <<>>
        /\ found = {}
        /\ pc \in {"retrieve", "done"}

C8_IdentityFailureReturned ==
    /\ IdentityLookupFailed
    /\ pc = "done"
    /\ requests = <<Req("user", 0, <<>>)>>

-----------------------------------------------------------------------------
(* C9 *)

HeaderRepos(b) ==
    LET hs == SelectSeq(b, LAMBDA l : l.kind = "header")
    IN [i \in 1..Len(hs) |-> hs[i].repo]

-----------------------------------------------------------------------------
(* C10 *)

NothingRetrieved ==
    \A i \in 1..Len(retrieved) : retrieved[i].status # HTTP_OK \/ retrieved[i].n = 0

RetrievalLoopEnded == pc \notin {"main", "user_info", "search", "search_return", "retrieve"}

\* C10: with both credentials present, when discovery returns no repository or
\* every retrieval returns nothing (a failed one included), main prints the
\* no-commits message and ends without invoking the formatter, the summarizer or
\* the generative service; a failed retrieval does not stop the retrieval of the
\* remaining repositories, and the summarizer runs only after every discovered
\* repository was retrieved and one of them had commits.
C10_NoCommitsPath ==
    ~CredentialMissing =>
        /\ Len(retrieved) <= Len(user_repos)
        /\ \A i \in 1..Len(retrieved) : retrieved[i].repo = FullName(user_repos[i])
        /\ Len(RequestsOf("commits")) = Len(retrieved)
        /\ RetrievalLoopEnded => Len(retrieved) = Len(user_repos)
        /\ (RetrievalLoopEnded /\ NothingRetrieved) =>
              /\ pc = "done"
              /\ Last(out) = "no_commits"
              /\ calls = <<>>
              /\ RequestsOf("generate") = <<>>
              /\ "summary_block" \notin Elems(out)
        /\ (calls # <<>> \/ RequestsOf("generate") # <<>> \/ "summary_block" \in Elems(out)) =>
              /\ Len(retrieved) = Len(user_repos)
              /\ ~NothingRetrieved

C10_FailedThenEmpty ==
    /\ pc = "done"
    /\ Last(out) = "no_commits"
    /\ Len(retrieved) = 2
    /\ retrieved[1].status # HTTP_OK
    /\ retrieved[2].status = HTTP_OK
    /\ retrieved[2].n = 0

====
